---------------------------- MODULE Spec2Model ----------------------------
(***************************************************************************)
(* A model of three units of gollum that share no state:                   *)
(*   - consumer.Syslogd  (src/consumer/syslogd.go)                          *)
(*   - consumer.Profiler (src/consumer/Profiler.go)                         *)
(*   - shared.Config     (src/unnamed/part_001)                             *)
(* A behaviour starts with one of the three objects constructed (Init) and *)
(* runs the operations of that object; the other two stay absent.          *)
(***************************************************************************)
EXTENDS Integers, Sequences, FiniteSets, TLC

VARIABLES
    \* ---- consumer.Syslogd ----
    spc,        \* position of the goroutine that owns the Syslogd consumer
    cons,       \* the Syslogd struct: format, protocol, address, sequence
    confIn,     \* the arguments of Configure: the plugin config, the base's outcome
    confErr,    \* the error Configure returned ("nil" when none)
    server,     \* the go-syslog server created by Consume
    fuse,       \* the last fuse signal the control loop dispatched
    signals,    \* number of control signals delivered so far
    hpc,        \* per server goroutine: position inside Handle
    hloc,       \* per server goroutine: locals of Handle (content, seq, tmp)
    overlap,    \* history: two Handle invocations have overlapped in time
    handled,    \* history: the arguments of the Handle invocations, in order
    enqueued,   \* the Enqueue calls made so far, in order: (content, seq)
    \* ---- consumer.Profiler ----
    ppc,        \* position of Profiler.Consume
    prof,       \* the Profiler struct: profileRuns, batches, length
    profIn,     \* history: the plugin config handed to Create
    gpc,        \* position of the profile goroutine
    randString, \* local of profile
    b,          \* local of profile: batch counter
    i,          \* local of profile: run counter
    posted,     \* the postMessage calls made so far, in order
    received,   \* history: the commands Consume took from the control channel
    postedAtReturn, \* history: number of postMessage calls when Consume returned
    \* ---- shared.Config ----
    cpc,        \* "none" or "ready": a Config made by ReadConfig exists
    config,     \* Config.Settings: class name -> list of PluginConfig
    declared,   \* history: every declaration handed to SetYAML, in order
    yamlRet     \* the values SetYAML returned, in order

syslogdVars == <<spc, cons, confIn, confErr, server, fuse, signals,
                 hpc, hloc, overlap, handled, enqueued>>
profilerVars == <<ppc, prof, profIn, gpc, randString, b, i, posted, received, postedAtReturn>>
configVars == <<cpc, config, declared, yamlRet>>
vars == <<syslogdVars, profilerVars, configVars>>

(***************************************************************************)
(* Bounds of the model.                                                    *)
(***************************************************************************)
MaxSignals == 2     \* control signals delivered to one Syslogd
MaxMsgs == 3        \* messages one syslog server passes to Handle
MaxConns == 2       \* tcp connection goroutines of one syslog server
MaxCommands == 3    \* commands sent to one Profiler
MaxPosts == 4       \* postMessage calls of one Profiler
MaxLength == 2      \* runes of randString that are drawn
MaxDecls == 3       \* plugin declarations handed to one Config

(***************************************************************************)
(* Syslogd.Configure                                                       *)
(***************************************************************************)
\* An address string "<protocol>://<address>" is the pair <<protocol, address>>.
DefaultAddress == <<"udp", "0.0.0.0:514">>
DefaultFormat == "RFC6587"

Addresses == {<<"udp", "0.0.0.0:514">>, <<"tcp", "localhost:5880">>,
              <<"unix", "/var/gollum.socket">>, <<"http", "localhost:80">>}
Formats == {"RFC3164", "RFC5424", "RFC6587", "RFC9999"}

\* The plugin configs offered to Configure: Address and Format each given or left out.
SyslogdConfs ==
    {[k \in {} |-> ""]}
    \cup {[k \in {"Address"} |-> a] : a \in Addresses}
    \cup {[k \in {"Format"} |-> f] : f \in Formats}
    \cup {[k \in {"Address", "Format"} |-> IF k = "Address" THEN a ELSE f] :
             a \in Addresses, f \in Formats}

\* conf.GetString(key, default): the value of the key, the default when absent.
GetString(conf, key, default) ==
    IF key \in DOMAIN conf THEN conf[key] ELSE default

\* shared.ParseAddress: returns (address, protocol) of "<protocol>://<address>".
ParseAddress(addressString) == <<addressString[2], addressString[1]>>

\* The zero value of the Syslogd struct: nil format, empty strings, nil pointer.
\* The pointer cons.sequence is <<>> when nil and <<n>> when it points to n.
ZeroSyslogd == [format |-> "nil", protocol |-> "", address |-> "", sequence |-> <<>>]

\* Configure with a fault: a format that demands UDP rewrites every protocol.
ConfigureForcesUdp(c, conf, baseErr) ==
    IF baseErr THEN [cons |-> c, err |-> "base"]
    ELSE
    LET parsed == ParseAddress(GetString(conf, "Address", DefaultAddress))
        c1 == [c EXCEPT !.address = parsed[1], !.protocol = parsed[2]]
        format == GetString(conf, "Format", DefaultFormat)
    IN  IF c1.protocol \notin {"udp", "tcp", "unix"}
        THEN [cons |-> c1, err |-> "protocol"]
        ELSE
        LET c2 == CASE format = "RFC3164" ->
                         [c1 EXCEPT !.format = "syslog.RFC3164", !.protocol = "udp"]
                    [] format = "RFC5424" ->
                         [c1 EXCEPT !.format = "syslog.RFC5424", !.protocol = "udp"]
                    [] format = "RFC6587" -> [c1 EXCEPT !.format = "syslog.RFC6587"]
                    [] OTHER -> c1
            err == IF format \in {"RFC3164", "RFC5424", "RFC6587"} THEN "nil" ELSE "format"
        IN  [cons |-> [c2 EXCEPT !.sequence = <<0>>], err |-> err]

\* Configure with a fault: the format is looked at before the protocol.
ConfigureFormatFirst(c, conf, baseErr) ==
    IF baseErr THEN [cons |-> c, err |-> "base"]
    ELSE
    LET parsed == ParseAddress(GetString(conf, "Address", DefaultAddress))
        c1 == [c EXCEPT !.address = parsed[1], !.protocol = parsed[2]]
        format == GetString(conf, "Format", DefaultFormat)
        c2 == CASE format = "RFC3164" ->
                       [c1 EXCEPT !.format = "syslog.RFC3164",
                                  !.protocol = IF @ = "tcp" THEN "udp" ELSE @]
                  [] format = "RFC5424" ->
                       [c1 EXCEPT !.format = "syslog.RFC5424",
                                  !.protocol = IF @ = "tcp" THEN "udp" ELSE @]
                  [] format = "RFC6587" -> [c1 EXCEPT !.format = "syslog.RFC6587"]
                  [] OTHER -> c1
    IN  IF format \notin {"RFC3164", "RFC5424", "RFC6587"}
        THEN [cons |-> [c2 EXCEPT !.sequence = <<0>>], err |-> "format"]
        ELSE IF c1.protocol \notin {"udp", "tcp", "unix"}
        THEN [cons |-> c1, err |-> "protocol"]
        ELSE [cons |-> [c2 EXCEPT !.sequence = <<0>>], err |-> "nil"]

\* Syslogd.Configure(conf): the struct it leaves behind and the error it returns.
\* baseErr is the outcome of cons.ConsumerBase.Configure(conf).
Configure(c, conf, baseErr) ==
    IF baseErr THEN [cons |-> c, err |-> "base"]
    ELSE
    LET parsed == ParseAddress(GetString(conf, "Address", DefaultAddress))
        c1 == [c EXCEPT !.address = parsed[1], !.protocol = parsed[2]]
        format == GetString(conf, "Format", DefaultFormat)
    IN  IF c1.protocol \notin {"udp", "tcp", "unix"}
        THEN [cons |-> c1, err |-> "protocol"]
        ELSE
        LET c2 == CASE format = "RFC3164" ->
                         [c1 EXCEPT !.format = "syslog.RFC3164",
                                    !.protocol = IF @ = "tcp" THEN "udp" ELSE @]
                    [] format = "RFC5424" ->
                         [c1 EXCEPT !.format = "syslog.RFC5424",
                                    !.protocol = IF @ = "tcp" THEN "udp" ELSE @]
                    [] format = "RFC6587" -> [c1 EXCEPT !.format = "syslog.RFC6587"]
                    [] OTHER -> c1
            err == IF format \in {"RFC3164", "RFC5424", "RFC6587"} THEN "nil" ELSE "format"
        IN  [cons |-> [c2 EXCEPT !.sequence = <<0>>], err |-> err]


(***************************************************************************)
(* The go-syslog server used by Syslogd.Consume                            *)
(***************************************************************************)
StopSignals == {"StopGraceful", "StopImmediate"}
Signals == StopSignals \cup {"Roll", "FuseBurn", "FuseActive"}

\* The goroutines of a server that call the handler: one per tcp connection,
\* a single one for the datagram sockets (udp, unixgram).
Conns(protocol) == IF protocol = "tcp" THEN 1..MaxConns ELSE {1}

\* syslog.NewServer(): no format, no socket, no goroutine.
\* kind: the Listen* call that succeeded ("none" when none did); open: its socket
\* is open; workers: the goroutines in the server's wait group.
NewServer == [format |-> "nil", kind |-> "none", open |-> FALSE, workers |-> {}]

\* server.Boot(): starts the goroutines that serve the server's sockets. On a
\* socket that Kill has closed (or that was never opened) they end at once.
Boot(s) == IF s.open THEN [s EXCEPT !.workers = Conns(s.kind)] ELSE s

\* server.Kill(): closes the sockets. A goroutine blocked on its socket ends; one
\* that is inside the handler ends when the handler returns.
Kill(s, pcs) ==
    IF s.open
    THEN [s EXCEPT !.open = FALSE, !.workers = {w \in @ : pcs[w] # "idle"}]
    ELSE s

\* server.Wait(): returns when the wait group is empty.
WaitReturns(s) == s.workers = {}

(***************************************************************************)
(* Syslogd: Configure, Consume and the control loop                        *)
(***************************************************************************)
IdleHandlers == [c \in 1..MaxConns |-> "idle"]
NoLocals == [c \in 1..MaxConns |-> [content |-> "", seq |-> 0, tmp |-> 0]]

NoConfIn == [conf |-> [k \in {} |-> ""], baseErr |-> FALSE]

SyslogdAbsent ==
    /\ spc = "none" /\ cons = ZeroSyslogd /\ confIn = NoConfIn /\ confErr = "nil" /\ server = NewServer
    /\ fuse = "none" /\ signals = 0
    /\ hpc = IdleHandlers /\ hloc = NoLocals /\ overlap = FALSE
    /\ handled = <<>> /\ enqueued = <<>>

\* A Syslogd made from the registered template Syslogd{}.
SyslogdInit ==
    /\ spc = "new" /\ cons = ZeroSyslogd /\ confIn = NoConfIn /\ confErr = "nil" /\ server = NewServer
    /\ fuse = "none" /\ signals = 0
    /\ hpc = IdleHandlers /\ hloc = NoLocals /\ overlap = FALSE
    /\ handled = <<>> /\ enqueued = <<>>

SyslogdConfigure(conf, baseErr) ==
    /\ spc = "new"
    /\ LET r == Configure(cons, conf, baseErr)
       IN  /\ cons' = r.cons
           /\ confErr' = r.err
           /\ confIn' = [conf |-> conf, baseErr |-> baseErr]
           /\ spc' = IF r.err = "nil" THEN "configured" ELSE "failed"
    /\ UNCHANGED <<server, fuse, signals, hpc, hloc,
                   overlap, handled, enqueued>>
    /\ UNCHANGED <<profilerVars, configVars>>

\* Consume up to the call of ControlLoop. listenOk: the Listen* call succeeded
\* (a failure is logged and Consume goes on).
ConsumeStart(s, c, listenOk) ==
    Boot([s EXCEPT !.format = c.format,
                   !.kind = IF listenOk THEN c.protocol ELSE "none",
                   !.open = listenOk])

SyslogdConsume(listenOk) ==
    /\ spc = "configured"
    /\ server' = ConsumeStart(NewServer, cons, listenOk)
    /\ spc' = "loop"
    /\ UNCHANGED <<cons, confIn, confErr, fuse, signals, hpc, hloc,
                   overlap, handled, enqueued>>
    /\ UNCHANGED <<profilerVars, configVars>>

\* The fuse callbacks Consume installs.
FuseBurnedCallback(s, pcs) == Kill(s, pcs)
FuseActiveCallback(s) == Boot(s)

\* ConsumerBase.ControlLoop receiving one signal: a stop ends the loop, a fuse
\* signal runs the callback set for it, any other signal changes nothing here.
ControlLoop(sig) ==
    /\ spc = "loop"
    /\ signals < MaxSignals
    /\ signals' = signals + 1
    /\ spc' = IF sig \in StopSignals THEN "wait" ELSE "loop"
    /\ server' = CASE sig = "FuseBurn" -> FuseBurnedCallback(server, hpc)
                   [] sig = "FuseActive" -> FuseActiveCallback(server)
                   [] OTHER -> server
    /\ fuse' = CASE sig = "FuseBurn" -> "burned"
                 [] sig = "FuseActive" -> "active"
                 [] OTHER -> fuse
    /\ UNCHANGED <<cons, confIn, confErr, hpc, hloc, overlap, handled, enqueued>>
    /\ UNCHANGED <<profilerVars, configVars>>

\* server.Wait() returns, the deferred server.Kill() runs and Consume returns.
SyslogdWait ==
    /\ spc = "wait"
    /\ WaitReturns(server)
    /\ server' = Kill(server, hpc)
    /\ spc' = "done"
    /\ UNCHANGED <<cons, confIn, confErr, fuse, signals, hpc, hloc,
                   overlap, handled, enqueued>>
    /\ UNCHANGED <<profilerVars, configVars>>


(***************************************************************************)
(* Syslogd.Handle, called by the goroutines of the server                  *)
(***************************************************************************)
\* A value of a format.LogParts entry (an interface{}): a string, an int, or nil
\* when the key is absent.
StringValue(v) == [type |-> "string", val |-> v]
IntValue == [type |-> "int", val |-> "42"]
NilValue == [type |-> "nil", val |-> ""]

\* The LogParts the server's parser may hand to Handle.
\* An RFC3164 parser fills "content", an RFC5424 parser "message"; the third has
\* no string at all.
LogParts == {[content |-> StringValue("c"), message |-> NilValue],
             [content |-> NilValue, message |-> StringValue("m")],
             [content |-> IntValue, message |-> NilValue]}

\* v.(string) in its two-result form: the string and true, or "" and false.
AssertString(v) ==
    IF v.type = "string" THEN [content |-> v.val, isString |-> TRUE]
    ELSE [content |-> "", isString |-> FALSE]

\* The switch of Handle: content and isString for the consumer's format.
HandleSwitch(format, parts) ==
    CASE format = "syslog.RFC3164" -> AssertString(parts.content)
      [] format \in {"syslog.RFC5424", "syslog.RFC6587"} -> AssertString(parts.message)
      [] OTHER -> [content |-> "", isString |-> FALSE]

\* A goroutine that leaves the handler finds its socket closed and ends.
AfterHandle(s, c) == IF s.open THEN s ELSE [s EXCEPT !.workers = @ \ {c}]

\* Handle up to the evaluation of the arguments of Enqueue: the switch and the
\* early return when the part is not a string.
HandleBegin(c, parts) ==
    /\ spc \in {"loop", "wait"}
    /\ c \in server.workers
    /\ server.open
    /\ hpc[c] = "idle"
    /\ Len(handled) < MaxMsgs
    /\ handled' = Append(handled, parts)
    /\ overlap' = (overlap \/ \E d \in server.workers : d # c /\ hpc[d] # "idle")
    /\ LET r == HandleSwitch(cons.format, parts)
       IN  IF r.isString
           THEN /\ hpc' = [hpc EXCEPT ![c] = "arg"]
                /\ hloc' = [hloc EXCEPT ![c].content = r.content]
           ELSE UNCHANGED <<hpc, hloc>>
    /\ UNCHANGED <<spc, cons, confIn, confErr, server, fuse, signals, enqueued>>
    /\ UNCHANGED <<profilerVars, configVars>>

\* The argument *cons.sequence of the Enqueue call is read.
HandleArg(c) ==
    /\ hpc[c] = "arg"
    /\ hloc' = [hloc EXCEPT ![c].seq = cons.sequence[1]]
    /\ hpc' = [hpc EXCEPT ![c] = "enqueue"]
    /\ UNCHANGED <<spc, cons, confIn, confErr, server, fuse, signals,
                   overlap, handled, enqueued>>
    /\ UNCHANGED <<profilerVars, configVars>>

\* cons.Enqueue([]byte(content), seq)
HandleEnqueue(c) ==
    /\ hpc[c] = "enqueue"
    /\ enqueued' = Append(enqueued, [content |-> hloc[c].content, seq |-> hloc[c].seq])
    /\ hpc' = [hpc EXCEPT ![c] = "load"]
    /\ UNCHANGED <<spc, cons, confIn, confErr, server, fuse, signals,
                   hloc, overlap, handled>>
    /\ UNCHANGED <<profilerVars, configVars>>

\* *cons.sequence++ is a load and a store of an unguarded uint64.
HandleLoad(c) ==
    /\ hpc[c] = "load"
    /\ hloc' = [hloc EXCEPT ![c].tmp = cons.sequence[1]]
    /\ hpc' = [hpc EXCEPT ![c] = "store"]
    /\ UNCHANGED <<spc, cons, confIn, confErr, server, fuse, signals,
                   overlap, handled, enqueued>>
    /\ UNCHANGED <<profilerVars, configVars>>

\* Increment with a fault: the counter skips a number.
IncrementTwice(n) == n + 2

\* What the increment stores (no run of the model comes near 2^64).
Increment(n) == n + 1

HandleStore(c) ==
    /\ hpc[c] = "store"
    /\ cons' = [cons EXCEPT !.sequence = <<Increment(hloc[c].tmp)>>]
    /\ hpc' = [hpc EXCEPT ![c] = "idle"]
    /\ hloc' = [hloc EXCEPT ![c] = [content |-> "", seq |-> 0, tmp |-> 0]]
    /\ server' = AfterHandle(server, c)
    /\ UNCHANGED <<spc, confIn, confErr, fuse, signals, overlap,
                   handled, enqueued>>
    /\ UNCHANGED <<profilerVars, configVars>>

SyslogdNext ==
    \/ \E conf \in SyslogdConfs, baseErr \in BOOLEAN : SyslogdConfigure(conf, baseErr)
    \/ \E listenOk \in BOOLEAN : SyslogdConsume(listenOk)
    \/ \E sig \in Signals : ControlLoop(sig)
    \/ SyslogdWait
    \/ \E c \in 1..MaxConns, parts \in LogParts : HandleBegin(c, parts)
    \/ \E c \in 1..MaxConns : HandleArg(c)
    \/ \E c \in 1..MaxConns : HandleEnqueue(c)
    \/ \E c \in 1..MaxConns : HandleLoad(c)
    \/ \E c \in 1..MaxConns : HandleStore(c)


(***************************************************************************)
(* consumer.Profiler                                                       *)
(***************************************************************************)
DefaultRuns == 10000
DefaultBatches == 10
DefaultLength == 256

\* conf.GetInt(key, default): the value of the key, the default when absent.
GetInt(conf, key, default) ==
    IF key \in DOMAIN conf THEN conf[key] ELSE default

\* The plugin configs offered to Create: Runs, Batches and Length each given or not.
ProfilerConfs ==
    UNION {[keys -> {1, 2}] : keys \in SUBSET {"Runs", "Batches", "Length"}}

ZeroProfiler == [profileRuns |-> 0, batches |-> 0, length |-> 0]

\* Profiler.Create: the copy of the consumer it returns.
Create(p, conf) ==
    [p EXCEPT !.profileRuns = GetInt(conf, "Runs", DefaultRuns),
              !.batches = GetInt(conf, "Batches", DefaultBatches),
              !.length = GetInt(conf, "Length", DefaultLength)]

\* A stand-in for the 75 runes of stringBase.
stringBase == <<"a", "b">>

ConsumerControlStop == "ConsumerControlStop"
\* Roll stands for every command that is not ConsumerControlStop.
ConsumerControls == {ConsumerControlStop, "ConsumerControlRoll"}

\* No plugin config has been handed to Create yet.
NoProfIn == [k \in {} |-> 0]

ProfilerAbsent ==
    /\ ppc = "none" /\ prof = ZeroProfiler /\ profIn = NoProfIn
    /\ gpc = "none" /\ randString = <<>>
    /\ b = 0 /\ i = 0 /\ posted = <<>> /\ received = <<>> /\ postedAtReturn = 0

\* The registered template Profiler{}.
ProfilerInit ==
    /\ ppc = "new" /\ prof = ZeroProfiler /\ profIn = NoProfIn
    /\ gpc = "none" /\ randString = <<>>
    /\ b = 0 /\ i = 0 /\ posted = <<>> /\ received = <<>> /\ postedAtReturn = 0

\* err is the outcome of configureStandardConsumer; the fields are set either way.
ProfilerCreate(conf, err) ==
    /\ ppc = "new"
    /\ prof' = Create(prof, conf)
    /\ profIn' = conf
    /\ ppc' = IF err THEN "failed" ELSE "created"
    /\ UNCHANGED <<gpc, randString, b, i, posted, received, postedAtReturn>>
    /\ UNCHANGED <<syslogdVars, configVars>>

\* Consume: go cons.profile(), then the loop on the control channel.
ProfilerConsume ==
    /\ ppc = "created"
    /\ ppc' = "loop"
    /\ gpc' = "rand"
    /\ UNCHANGED <<prof, profIn, randString, b, i, posted, received, postedAtReturn>>
    /\ UNCHANGED <<syslogdVars, configVars>>

\* ConsumeCommand with a fault: every command ends Consume.
ConsumeCommandAny(command) == "returned"

\* What Consume does with a command: return on stop, go on otherwise.
ConsumeCommand(command) ==
    IF command = ConsumerControlStop THEN "returned" ELSE "loop"

ProfilerControl(command) ==
    /\ ppc = "loop"
    /\ Len(received) < MaxCommands
    /\ received' = Append(received, command)
    /\ ppc' = ConsumeCommand(command)
    /\ postedAtReturn' = IF ppc' = "returned" THEN Len(posted) ELSE postedAtReturn
    /\ UNCHANGED <<prof, profIn, gpc, randString, b, i, posted>>
    /\ UNCHANGED <<syslogdVars, configVars>>

\* profile: one round of the loop that draws randString.
ProfileRand(r) ==
    /\ gpc = "rand"
    /\ Len(randString) < prof.length
    /\ Len(randString) < MaxLength
    /\ randString' = Append(randString, stringBase[r])
    /\ UNCHANGED <<ppc, prof, profIn, gpc, b, i, posted, received, postedAtReturn>>
    /\ UNCHANGED <<syslogdVars, configVars>>

\* profile: randString is complete, the batches begin.
ProfileBatches ==
    /\ gpc = "rand"
    /\ Len(randString) >= prof.length
    /\ gpc' = "batch"
    /\ b' = 0
    /\ i' = 0
    /\ UNCHANGED <<ppc, prof, profIn, randString, posted, received, postedAtReturn>>
    /\ UNCHANGED <<syslogdVars, configVars>>

\* Sprintf with a fault: the index is printed one-based.
SprintfOneBased(n, runs, str) == [prefix |-> <<n + 1, runs>>, text |-> str]

\* fmt.Sprintf("%d/%d %s", i, runs, string(randString)): prefix and text.
Sprintf(n, runs, str) == [prefix |-> <<n, runs>>, text |-> str]

\* profile: one round of the inner loop, a postMessage call.
ProfilePost ==
    /\ gpc = "batch"
    /\ b < prof.batches
    /\ i < prof.profileRuns
    /\ Len(posted) < MaxPosts
    /\ posted' = Append(posted, Sprintf(i, prof.profileRuns, randString))
    /\ i' = i + 1
    /\ UNCHANGED <<ppc, prof, profIn, gpc, randString, b, received, postedAtReturn>>
    /\ UNCHANGED <<syslogdVars, configVars>>

\* profile: the inner loop is over, the run is logged and the next batch begins.
ProfileBatchEnd ==
    /\ gpc = "batch"
    /\ b < prof.batches
    /\ i >= prof.profileRuns
    /\ b' = b + 1
    /\ i' = 0
    /\ UNCHANGED <<ppc, prof, profIn, gpc, randString, posted, received, postedAtReturn>>
    /\ UNCHANGED <<syslogdVars, configVars>>

\* profile returns after the last batch.
ProfileReturn ==
    /\ gpc = "batch"
    /\ b >= prof.batches
    /\ gpc' = "done"
    /\ UNCHANGED <<ppc, prof, profIn, randString, b, i, posted, received, postedAtReturn>>
    /\ UNCHANGED <<syslogdVars, configVars>>

ProfilerNext ==
    \/ \E conf \in ProfilerConfs, err \in BOOLEAN : ProfilerCreate(conf, err)
    \/ ProfilerConsume
    \/ \E command \in ConsumerControls : ProfilerControl(command)
    \/ \E r \in 1..Len(stringBase) : ProfileRand(r)
    \/ ProfileBatches
    \/ ProfilePost
    \/ ProfileBatchEnd
    \/ ProfileReturn


(***************************************************************************)
(* shared.Config                                                           *)
(***************************************************************************)
\* Values of the parsed YAML tree (interface{}): a bool or a string.
BoolValue(t) == [type |-> "bool", val |-> t]
YamlTrue == BoolValue("true")
YamlFalse == BoolValue("false")
YamlText == [type |-> "string", val |-> "x"]

PluginClasses == {"consumer.Syslogd", "consumer.Profiler"}

\* The settings maps of a declaration: Enable left out, true or false, and an
\* option no plugin knows left out or given.
SettingsMaps ==
    UNION {[keys -> {YamlTrue, YamlFalse, YamlText}] : keys \in SUBSET {"Enable", "Bogus"}}

WellTyped(m) ==
    /\ "Enable" \in DOMAIN m => m["Enable"].type = "bool"
    /\ "Bogus" \in DOMAIN m => m["Bogus"].type = "string"

\* One item of the plugin list: a map with the class as its one key.
Declarations ==
    {[class |-> c, settings |-> m] : c \in PluginClasses,
                                     m \in {x \in SettingsMaps : WellTyped(x)}}

\* The plugin lists that fit into what is left of the model's bound.
PluginLists(room) == UNION {[1..n -> Declarations] : n \in 0..room}

\* settingValue.(bool)
AssertBool(v) == v.val = "true"

\* What PluginConfig{false, make(map[string]interface{})} builds.
NewPluginConfig == [Enable |-> FALSE, Settings |-> [k \in {} |-> YamlText]]

\* SetKey with a fault: a key other than Enable is dropped.
SetKeyDropsUnknown(plugin, key, settingValue) ==
    IF key = "Enable"
    THEN [plugin EXCEPT !.Enable = AssertBool(settingValue)]
    ELSE plugin

\* The switch on one key of the settings map.
SetKey(plugin, key, settingValue) ==
    IF key = "Enable"
    THEN [plugin EXCEPT !.Enable = AssertBool(settingValue)]
    ELSE [plugin EXCEPT !.Settings =
             [k \in DOMAIN @ \cup {key} |-> IF k = key THEN settingValue ELSE @[k]]]

\* The range loop over the settings map (Go visits the keys in any order; the
\* keys of a map differ, so every order builds the same plugin).
RECURSIVE ReadSettings(_, _, _)
ReadSettings(plugin, pluginSettingsMap, keys) ==
    IF keys = {} THEN plugin
    ELSE LET key == CHOOSE k \in keys : TRUE
         IN  ReadSettings(SetKey(plugin, key, pluginSettingsMap[key]),
                          pluginSettingsMap, keys \ {key})

\* AddPlugin with a fault: the plugin replaces the list of its class.
AddPluginReplaces(settings, class, plugin) ==
    [c \in DOMAIN settings \cup {class} |->
        IF c = class THEN <<plugin>> ELSE settings[c]]

\* conf.Settings[class] = append(list, plugin), the list made when missing.
AddPlugin(settings, class, plugin) ==
    LET list == IF class \in DOMAIN settings THEN settings[class] ELSE <<>>
    IN  [c \in DOMAIN settings \cup {class} |->
            IF c = class THEN Append(list, plugin) ELSE settings[c]]

\* The body of the loop over the plugin list, for one item.
SetPlugin(settings, pluginData) ==
    AddPlugin(settings, pluginData.class,
              ReadSettings(NewPluginConfig, pluginData.settings,
                           DOMAIN pluginData.settings))

\* Config.SetYAML: the Settings map after the loop over pluginList.
RECURSIVE SetYAMLSettings(_, _)
SetYAMLSettings(settings, pluginList) ==
    IF pluginList = <<>> THEN settings
    ELSE SetYAMLSettings(SetPlugin(settings, Head(pluginList)), Tail(pluginList))

\* Config.SetYAML: the value it returns.
SetYAMLReturn(pluginList) == "true"

ConfigAbsent ==
    /\ cpc = "none" /\ config = [c \in {} |-> <<>>] /\ declared = <<>> /\ yamlRet = "none"

\* ReadConfig: &Config{make(map[string][]PluginConfig)}
ConfigInit ==
    /\ cpc = "ready" /\ config = [c \in {} |-> <<>>] /\ declared = <<>> /\ yamlRet = "none"

SetYAML(pluginList) ==
    /\ cpc = "ready"
    /\ config' = SetYAMLSettings(config, pluginList)
    /\ yamlRet' = SetYAMLReturn(pluginList)
    /\ declared' = declared \o pluginList
    /\ UNCHANGED cpc
    /\ UNCHANGED <<syslogdVars, profilerVars>>

ConfigNext ==
    /\ cpc = "ready"
    /\ \E pluginList \in PluginLists(MaxDecls - Len(declared)) : SetYAML(pluginList)

(***************************************************************************)
(* The specifications                                                      *)
(***************************************************************************)
\* One of the three objects has been constructed.
SyslogdOnly == SyslogdInit /\ ProfilerAbsent /\ ConfigAbsent
ProfilerOnly == SyslogdAbsent /\ ProfilerInit /\ ConfigAbsent
ConfigOnly == SyslogdAbsent /\ ProfilerAbsent /\ ConfigInit

Init == SyslogdOnly \/ ProfilerOnly \/ ConfigOnly

Next == SyslogdNext \/ ProfilerNext \/ ConfigNext

Spec == Init /\ [][Next]_vars

\* The scheduler runs every goroutine that can take a step: the steps of the
\* program are weakly fair. Signals and messages come from outside and need not.
FairSpec ==
    /\ Spec
    /\ WF_vars(\E listenOk \in BOOLEAN : SyslogdConsume(listenOk))
    /\ WF_vars(SyslogdWait)
    /\ \A c \in 1..MaxConns :
          /\ WF_vars(HandleArg(c)) /\ WF_vars(HandleEnqueue(c))
          /\ WF_vars(HandleLoad(c)) /\ WF_vars(HandleStore(c))
    /\ WF_vars(ProfilerConsume)
    /\ WF_vars(ProfileBatches \/ ProfilePost \/ ProfileBatchEnd \/ ProfileReturn)

(***************************************************************************)
(* The claims                                                              *)
(***************************************************************************)
\* The server accepts input: its socket is open and a goroutine serves it.
ServerAccepts == server.open /\ server.workers # {}

\* C1: once a stop signal has ended the control loop of a Syslogd whose server
\* is booted, the server is eventually killed and Consume eventually returns.
C1_StopLeadsToReturn ==
    (spc = "wait" /\ ServerAccepts) ~> (spc = "done" /\ ~server.open)

\* C4: while the consumer is in its control loop, from the handling of a
\* FuseBurn until the handling of the next FuseActive the server is killed and
\* no message is enqueued, and once a FuseActive is handled the server accepts
\* input again.
C4_FuseContract ==
    /\ [](spc = "loop" /\ server.kind # "none" =>
             /\ fuse = "burned" => ~ServerAccepts
             /\ fuse = "active" => ServerAccepts)
    /\ [][fuse = "burned" /\ fuse' = "burned" => enqueued' = enqueued]_vars


\* C2: once Profiler.Consume has returned on a stop, the Profiler makes no
\* further postMessage call.
C2_NoPostAfterReturn == ppc = "returned" => Len(posted) = postedAtReturn

\* C3: the sequence numbers passed to Enqueue never decrease in the order of
\* the Enqueue calls.
C3_SequenceMonotone ==
    \A j, k \in 1..Len(enqueued) : j < k => enqueued[j].seq <= enqueued[k].seq

\* The declarations of one class, in the order they were handed to SetYAML.
DeclsOf(class) == SelectSeq(declared, LAMBDA d : d.class = class)

\* C5: a declaration without an Enable key yields a PluginConfig whose Enable is
\* true; Enable is false only when the declaration sets Enable: false.
C5_EnableDefaultsTrue ==
    \A c \in DOMAIN config : \A k \in 1..Len(config[c]) :
        k <= Len(DeclsOf(c)) =>
            LET given == DeclsOf(c)[k].settings
            IN  config[c][k].Enable =
                    ~("Enable" \in DOMAIN given /\ given["Enable"] = YamlFalse)

\* The protocol that the Address given to Configure names.
NamedProtocol == ParseAddress(GetString(confIn.conf, "Address", DefaultAddress))[2]
\* The Format given to Configure.
NamedFormat == GetString(confIn.conf, "Format", DefaultFormat)
Configured == spc \notin {"none", "new"} /\ confErr = "nil"

C7_UnknownKeysKept ==
    /\ declared # <<>> => yamlRet = "true"
    /\ yamlRet \in {"none", "true"}
    /\ \A c \in PluginClasses : \A k \in 1..Len(DeclsOf(c)) :
          /\ c \in DOMAIN config
          /\ k <= Len(config[c])
          /\ "Enable" \notin DOMAIN config[c][k].Settings
          /\ \A key \in DOMAIN DeclsOf(c)[k].settings \ {"Enable"} :
                /\ key \in DOMAIN config[c][k].Settings
                /\ config[c][k].Settings[key] = DeclsOf(c)[k].settings[key]

C7_Witness ==
    /\ yamlRet = "true"
    /\ \E k \in 1..Len(declared) :
          {"Enable", "Bogus"} \subseteq DOMAIN declared[k].settings

\* The part of a message that Handle must find to be a string, per format.
StringPart(format, parts) ==
    IF format = "syslog.RFC3164" THEN parts.content
    ELSE IF format \in {"syslog.RFC5424", "syslog.RFC6587"} THEN parts.message
    ELSE NilValue
\* The messages handed to Handle whose part is a string, in order.
StringMessages == SelectSeq(handled, LAMBDA m : StringPart(cons.format, m).type = "string")

\* C8: with Handle run sequentially, a message whose part is not a string causes
\* no Enqueue and leaves the counter alone: the k-th Enqueue call carries the
\* k-th such message and the sequence number k-1, and the counter stands at the
\* number of Enqueue calls whose increment is done.
C8_SequentialNumbering ==
    ~overlap /\ spc \notin {"none", "new", "failed"} =>
        LET inEnqueue == \E c \in 1..MaxConns : hpc[c] \in {"arg", "enqueue"}
            inIncrement == \E c \in 1..MaxConns : hpc[c] \in {"load", "store"}
        IN  /\ Len(StringMessages) = Len(enqueued) + (IF inEnqueue THEN 1 ELSE 0)
            /\ \A k \in 1..Len(enqueued) :
                  enqueued[k] = [content |-> StringPart(cons.format, StringMessages[k]).val,
                                 seq |-> k - 1]
            /\ cons.sequence = <<Len(enqueued) - (IF inEnqueue \/ ~inIncrement THEN 0 ELSE 1)>>

C8_Witness ==
    /\ ~overlap /\ Len(enqueued) = 2 /\ Len(handled) = 3
    /\ StringPart(cons.format, handled[2]).type # "string"
    /\ \A c \in 1..MaxConns : hpc[c] = "idle"

\* C9: Profiler.Consume has returned exactly when ConsumerControlStop has been
\* received; every other command is taken and Consume stays in its loop,
\* whatever the profile goroutine has done.
C9_ReturnsIffStop ==
    /\ ppc = "returned" <=>
          (received # <<>> /\ received[Len(received)] = ConsumerControlStop)
    /\ \A k \in 1..(Len(received) - 1) : received[k] # ConsumerControlStop
    /\ received # <<>> => ppc \in {"loop", "returned"}

C9_Witness ==
    /\ ppc = "returned" /\ Len(received) >= 2 /\ gpc = "batch" /\ posted # <<>>

\* C10: Configure returns an error exactly when the base fails, the protocol is
\* not udp, tcp or unix, or the format is not RFC3164, RFC5424 or RFC6587; after
\* a base failure or an unknown protocol no format is set and no counter
\* allocated; an unknown protocol is reported before an unknown format.
C10_ConfigureErrors ==
    spc \notin {"none", "new"} =>
        LET badProtocol == NamedProtocol \notin {"udp", "tcp", "unix"}
            badFormat == NamedFormat \notin {"RFC3164", "RFC5424", "RFC6587"}
        IN  /\ confErr # "nil" <=> (confIn.baseErr \/ badProtocol \/ badFormat)
            /\ confIn.baseErr => confErr = "base"
            /\ ~confIn.baseErr /\ badProtocol => confErr = "protocol"
            /\ ~confIn.baseErr /\ ~badProtocol /\ badFormat => confErr = "format"
            /\ confIn.baseErr \/ badProtocol =>
                  cons.format = "nil" /\ cons.sequence = <<>>

C10_Witness ==
    /\ spc = "failed" /\ confErr = "protocol"
    /\ NamedFormat = "RFC9999" /\ NamedProtocol = "http"

\* C11: a Profiler takes Runs and Batches from its config, 10000 and 10 when
\* absent, and Length when given; its k-th message (from 0) has the prefix
\* (k mod Runs)/Runs, so batches follow one another and the index rises from 0
\* to Runs-1 within each; every message carries one and the same string of
\* Length characters; when profile has returned exactly Batches x Runs
\* messages have been posted.
C11_PostsBatchesTimesRuns ==
    ppc \notin {"none", "new"} =>
        LET Runs == IF "Runs" \in DOMAIN profIn THEN profIn["Runs"] ELSE 10000
            Batches == IF "Batches" \in DOMAIN profIn THEN profIn["Batches"] ELSE 10
        IN  /\ prof.profileRuns = Runs /\ prof.batches = Batches
            /\ "Length" \in DOMAIN profIn => prof.length = profIn["Length"]
            /\ Len(posted) <= Batches * Runs
            /\ \A k \in 1..Len(posted) :
                  /\ posted[k].prefix = <<(k - 1) % Runs, Runs>>
                  /\ posted[k].text = posted[1].text
                  /\ Len(posted[k].text) = prof.length
            /\ gpc = "done" => Len(posted) = Batches * Runs

C11_Witness ==
    /\ gpc = "done" /\ Len(posted) = 4
    /\ profIn = [k \in {"Runs", "Batches", "Length"} |-> 2]
    /\ posted[3].prefix = <<0, 2>> /\ posted[4].prefix = <<1, 2>>
    /\ posted[4].text = <<"b", "a">>

\* The Settings list of every class has one entry per declaration of the class,
\* in declaration order; the entry's Settings are the declaration's keys other
\* than Enable and nothing else, its Enable the declared one when declared.
EntriesMatchDeclarations ==
    /\ DOMAIN config \subseteq PluginClasses
    /\ \A c \in PluginClasses :
          /\ c \in DOMAIN config <=> DeclsOf(c) # <<>>
          /\ c \in DOMAIN config =>
                /\ Len(config[c]) = Len(DeclsOf(c))
                /\ \A k \in 1..Len(config[c]) :
                      LET given == DeclsOf(c)[k].settings
                      IN  /\ config[c][k].Settings =
                                [key \in DOMAIN given \ {"Enable"} |-> given[key]]
                          /\ "Enable" \in DOMAIN given =>
                                config[c][k].Enable = (given["Enable"] = YamlTrue)

\* A step keeps every class and every entry a list already has, where it is.
EarlierEntriesKept ==
    \A c \in DOMAIN config :
        /\ c \in DOMAIN config'
        /\ Len(config'[c]) >= Len(config[c])
        /\ SubSeq(config'[c], 1, Len(config[c])) = config[c]

\* C12: after any sequence of SetYAML calls Config.Settings[class] holds exactly
\* one PluginConfig per declaration of the class seen so far, in declaration
\* order, each with the Settings of its own declaration only; a later
\* declaration is appended and no earlier entry is replaced or altered.
C12_OnePerDeclaration ==
    []EntriesMatchDeclarations /\ [][EarlierEntriesKept]_vars

C12_Witness ==
    /\ Len(declared) = 3
    /\ declared[1].class = "consumer.Syslogd" /\ declared[2].class = "consumer.Profiler"
    /\ declared[3].class = "consumer.Syslogd"
    /\ DOMAIN declared[1].settings = {"Bogus"} /\ DOMAIN declared[3].settings = {"Enable"}
    /\ Len(config["consumer.Syslogd"]) = 2 /\ Len(config["consumer.Profiler"]) = 1
    /\ DOMAIN config["consumer.Syslogd"][1].Settings = {"Bogus"}
    /\ DOMAIN config["consumer.Syslogd"][2].Settings = {}

=============================================================================
